---- MODULE Spec2Model ----
(***************************************************************************)
(* Wallet session manager of walrus-pages: the vanilla Wallet Standard     *)
(* module (currentWallet / currentAccount / unsubscribeEvents, the change  *)
(* detector, connect / restore / disconnect) together with the host        *)
(* registry, the wallet extensions and the browser's localStorage.         *)
(*                                                                         *)
(* The code runs on one thread: a synchronous stretch of a handler is one  *)
(* step; an operation is suspended at each await (picker, provider         *)
(* connect, retry delay) and the host may change in between.               *)
(***************************************************************************)
EXTENDS Integers, Sequences, FiniteSets, TLC

\* ------------------------------------------------------------- bounds
\* Public operations (connect, restore, disconnect) started in one run.
MaxOps == 3
\* Account-list changes the user makes in an extension in one run.
MaxChanges == 1

\* ---------------------------------------------------------- constants
maxRetries == 3

Null == "null"
KeyName == "walrus_wallet_name"
KeyAddr == "walrus_wallet_address"
Keys == {KeyName, KeyAddr}

\* ------------------------------------------------- the host's wallets
\* W1: a Sui wallet with every optional feature; W2: a multi-chain wallet
\* without standard:events and standard:disconnect; W3: not a Sui wallet.
Providers == {"W1", "W2", "W3"}

Name(w) ==
    CASE w = "W1" -> "Slush"
      [] w = "W2" -> "Suiet"
      [] OTHER    -> "MetaMask"

\* wallet.chains, each chain id a sequence of characters
Chains(w) ==
    CASE w = "W1" -> << <<"s","u","i",":","m">> >>
      [] w = "W2" -> << <<"e","i","p",":","1">>, <<"s","u","i",":","t">> >>
      [] OTHER    -> << <<"e","i","p",":","1">> >>

\* W4 is a wallet that declares no chain list at all; it takes part only
\* in the specification of wallet discovery
HasChains(w) == w # "W4"
DiscoveryProviders == Providers \cup {"W4"}

HasEvents(w) == w = "W1"
HasRevoke(w) == w = "W1"

\* The addresses a wallet's user owns.
Addresses(w) ==
    CASE w = "W1" -> {"0xA", "0xB"}
      [] w = "W2" -> {"0xC"}
      [] OTHER    -> {}

\* The order in which the extensions load and register
LoadOrder == <<"W3", "W2", "W1">>

\* The account list each wallet starts with
InitialAccounts(w) == IF w = "W1" THEN <<"0xA", "0xB">> ELSE <<"0xC">>

\* The page's listeners, registered in this order
Listeners == {"L1", "L2"}
ListenerOrder(l) == IF l = "L1" THEN 1 ELSE 2
\* L1 is a listener whose body throws
ListenerThrows(l) == l = "L1"
Slots == {1, 2}

VARIABLES
    \* the wallet module (src/unnamed/part_003:8-11)
    currentWallet, currentAccount, unsubscribeEvents, accountChangeListeners,
    \* the browser: origin-scoped storage
    localStorage,
    \* the host: registry in registration order, each wallet's account list,
    \* its authorization cache, its 'change' subscribers, an event in flight
    registry, accts, authorized, walletHandlers, pendingEvent,
    \* the picker modal shared by the wallet picker and the account picker
    modal,
    \* what the page shows: the wallet button, the loading overlay, the error
    page,
    \* the suspended calls of connectWallet / restoreWalletConnection
    call,
    \* observation: last completed operation, addresses each page listener
    \* received since the last account-list change, that change, counters
    last, received, chg, nOps, nChanges

vars == <<currentWallet, currentAccount, unsubscribeEvents, accountChangeListeners,
          localStorage, registry, accts, authorized, walletHandlers, pendingEvent,
          modal, page, call, last, received, chg, nOps, nChanges>>

\* ------------------------------------------------------------- values
NoAccount == [address |-> Null, owner |-> Null]
MkAccount(w, a) == [address |-> a, owner |-> w]
NoEvent == [wallet |-> Null, accounts |-> <<>>]
NoStore == [k \in Keys |-> Null]

SuiProviders == {w \in Providers : Addresses(w) # {}}

\* Duplicate-free sequences over S
ListsOf(S) ==
    {l \in UNION {[1..n -> S] : n \in 0..Cardinality(S)} :
        \A i, j \in 1..Len(l) : l[i] = l[j] => i = j}

AccountLists(w) == ListsOf(Addresses(w))

AccountsOf(w, list) == [i \in 1..Len(list) |-> MkAccount(w, list[i])]

\* ---------------------------------------------- memory the code acts on
\* The module's variables, the storage and what the code can reach of the
\* wallets, as one record; exc is an exception on its way to the caller.
Mem ==
    [wallet |-> currentWallet, account |-> currentAccount,
     unsub |-> unsubscribeEvents, listeners |-> accountChangeListeners,
     store |-> localStorage, handlers |-> walletHandlers,
     auth |-> authorized, recv |-> received, modal |-> modal,
     page |-> page, exc |-> Null]

Commit(m) ==
    /\ currentWallet' = m.wallet
    /\ currentAccount' = m.account
    /\ unsubscribeEvents' = m.unsub
    /\ accountChangeListeners' = m.listeners
    /\ localStorage' = m.store
    /\ walletHandlers' = m.handlers
    /\ authorized' = m.auth
    /\ received' = m.recv
    /\ modal' = m.modal
    /\ page' = m.page

\* What a call remembers across its awaits (wallet, accounts, savedName,
\* savedAddr, i), where it is suspended (pc), its result (ret), and what it
\* did, in order (log), the registry it read (reg), what it put in the
\* wallet picker (items), the memory it started from (snap) and the provider
\* whose revoke capability the disconnect just before it called (revoked).
IdleCall ==
    [op |-> "none", pc |-> "idle", wallet |-> Null, accounts |-> <<>>,
     savedName |-> Null, savedAddr |-> Null, i |-> 0,
     ret |-> [kind |-> "none", val |-> Null],
     log |-> <<>>, reg |-> <<>>, items |-> <<>>, prompted |-> FALSE, slot |-> 0,
     afterNoProvider |-> FALSE, caller |-> "none", during |-> {},
     revoked |-> Null,
     snap |-> [wallet |-> Null, account |-> NoAccount, unsub |-> Null,
               store |-> NoStore]]

Snapshot(m) ==
    [wallet |-> m.wallet, account |-> m.account, unsub |-> m.unsub,
     store |-> m.store]

Idle(c) == call[c].pc \in {"idle", "done"}
Quiet == \A c \in Slots : Idle(c)
FreeSlot == CHOOSE c \in Slots : Idle(c) /\ \A d \in Slots : Idle(d) => c <= d

NewCall(op, m) ==
    [IdleCall EXCEPT !.op = op, !.pc = "running", !.snap = Snapshot(m),
                     !.slot = FreeSlot,
                     !.caller = IF op = "restore" THEN "init"
                                ELSE IF m.wallet # Null /\ m.account # NoAccount
                                     THEN "api" ELSE "handleWalletConnect",
                     !.afterNoProvider =
                         /\ last.op = "connect" /\ last.threw
                         /\ call[last.slot].ret.val = "NoProviderFound",
                     !.revoked = IF last.op = "disconnect" /\ last.revoke = "ok"
                                 THEN last.wallet ELSE Null]

Log(x, e) == [x EXCEPT !.k.log = Append(@, e)]
Return(x, v) == [x EXCEPT !.k.pc = "done", !.k.ret = [kind |-> "return", val |-> v]]
Throw(x, e) == [x EXCEPT !.k.pc = "done", !.k.ret = [kind |-> "throw", val |-> e]]

\* ------------------------------------------------------------- the page
\* The wallet button (connected or not, and the address it shows), the
\* loading overlay, and the error message shown by the connect handler since
\* it was last started; exc is an exception on its way through a handler.
NoPage ==
    [connected |-> FALSE, label |-> Null, loading |-> FALSE, error |-> Null,
     exc |-> Null]

showLoading(pg) == [pg EXCEPT !.loading = TRUE]
hideLoading(pg) == [pg EXCEPT !.loading = FALSE]
showError(pg, message) == hideLoading([pg EXCEPT !.error = message])

\* updateWalletButton(isConnected, address): address.slice throws a
\* TypeError when the address is null, before the button is touched
updateWalletButton(pg, isConnected, address) ==
    IF isConnected
    THEN IF address = Null THEN [pg EXCEPT !.exc = "TypeError"]
         ELSE [pg EXCEPT !.connected = TRUE, !.label = address]
    ELSE [pg EXCEPT !.connected = FALSE, !.label = Null]

\* handleWalletConnect() up to its await of connectWallet()
handleWalletConnect(pg) == showLoading([pg EXCEPT !.error = Null])

\* handleWalletConnect() once connectWallet() has settled with ret
handleWalletConnect_settled(pg, ret) ==
    IF ret.kind = "throw" THEN showError(pg, ret.val)
    ELSE LET pg1 == updateWalletButton(pg, TRUE, ret.val)
         IN IF pg1.exc # Null THEN showError([pg1 EXCEPT !.exc = Null], pg1.exc)
            ELSE hideLoading(pg1)

\* init() once restoreWalletConnection() has settled with ret
init_restored(pg, ret) ==
    IF ret.kind = "return" /\ ret.val # Null
    THEN updateWalletButton(pg, TRUE, ret.val)
    ELSE pg

\* The caller of a call that has completed goes on
Continue(x) ==
    IF x.k.pc # "done" THEN x
    ELSE CASE x.k.caller = "handleWalletConnect" ->
                 [x EXCEPT !.m.page = handleWalletConnect_settled(@, x.k.ret)]
           [] x.k.caller = "init" ->
                 [x EXCEPT !.m.page = init_restored(@, x.k.ret)]
           [] OTHER -> x

\* --------------------------------------------------------- picker modal
\* The modal element: hidden or shown, the invocation whose items are in its
\* list, and the invocations whose onClose / onBackdropClick / onKeydown are
\* registered on the close button, the modal and the document. An invocation
\* is <<slot of the call, "wallet" or "account">>.
NoModal ==
    [hidden |-> TRUE, list |-> <<>>, close |-> {}, backdrop |-> {}, keydown |-> {}]

\* What the user can do: click an item, the close button, the backdrop (the
\* modal element itself) or the modal's content; press Escape or another key
PickerTargets == {"item", "close", "modal", "content", "Escape", "Enter"}

PickerPc(kind) == IF kind = "wallet" THEN "walletPicker" ELSE "accountPicker"

\* showPickerModal: the list is rebuilt with this invocation's items, the
\* three handlers are registered and the modal is shown
showPickerModal(x, kind) ==
    LET inv == <<x.k.slot, kind>>
    IN [x EXCEPT !.m.modal = [hidden |-> FALSE, list |-> inv,
                              close |-> @.close \cup {inv},
                              backdrop |-> @.backdrop \cup {inv},
                              keydown |-> @.keydown \cup {inv}]]

\* Mutant: cleanup() leaves the keydown handler on the document
cleanup_keepsKeydown(md, inv) ==
    [md EXCEPT !.hidden = TRUE, !.close = @ \ {inv}, !.backdrop = @ \ {inv}]

\* cleanup() of an invocation
cleanup(md, inv) ==
    [md EXCEPT !.hidden = TRUE, !.close = @ \ {inv}, !.backdrop = @ \ {inv},
               !.keydown = @ \ {inv}]

\* Mutant: a click anywhere in the modal closes it
onBackdropClick_anyTarget(target) == TRUE

\* onBackdropClick(e): whether onClose() is called
onBackdropClick(target) == target = "modal"

\* onKeydown(e): whether onClose() is called
onKeydown(key) == key = "Escape"

\* Whether the user's input reaches a handler of the invocation that calls
\* resolve: the item buttons and the close button can be clicked only while
\* the modal is shown
PickerFires(md, inv, on) ==
    CASE on = "item" -> ~md.hidden /\ md.list = inv
      [] on = "close" -> ~md.hidden /\ inv \in md.close
      [] on \in {"modal", "content"} ->
            ~md.hidden /\ inv \in md.backdrop /\ onBackdropClick(on)
      [] OTHER -> inv \in md.keydown /\ onKeydown(on)

\* cleanup(); resolve(value): the handler that fired, up to the resolution
PickerSettle(x, kind, on) ==
    Log([x EXCEPT !.m.modal = cleanup(@, <<x.k.slot, kind>>)], <<"input", on>>)

\* showWalletPicker(wallets)
showWalletPicker(x, wallets) ==
    [showPickerModal(Log(x, <<"pickWallet", "">>), "wallet") EXCEPT
        !.k.pc = "walletPicker", !.k.items = wallets]

\* showAccountPicker(accounts)
showAccountPicker(x) ==
    [showPickerModal(Log(x, <<"pickAccount", "">>), "account") EXCEPT
        !.k.pc = "accountPicker"]

\* What the user can do with the items shown
PickerInputs(values) ==
    {<<"item", v>> : v \in values} \cup {<<t, Null>> : t \in PickerTargets \ {"item"}}

setItem(x, key, v) == Log([x EXCEPT !.m.store[key] = v], <<"setItem", key>>)
removeItem(x, key) == Log([x EXCEPT !.m.store[key] = Null], <<"removeItem", key>>)

\* ----------------------------------------------------- change detector
\* onAccountChange(listener)
onAccountChange(m, l) == [m EXCEPT !.listeners = @ \cup {l}]

\* listener(address): the listener receives the address; its body may throw
CallListener(m, l, address) ==
    [m EXCEPT !.recv[l] = Append(@, address),
              !.exc = IF ListenerThrows(l) THEN "ListenerError" ELSE @]

\* Mutant: the listener is called without try / catch
CatchListenerError_rethrows(m) == m

\* try { listener(address) } catch (e) { console.error(...) }
CatchListenerError(m) == [m EXCEPT !.exc = Null]

\* The listeners of a Set in insertion order, from position i on
RECURSIVE NotifyFrom(_, _, _)
NotifyFrom(m, address, i) ==
    IF i > Cardinality(Listeners) \/ m.exc # Null THEN m
    ELSE LET l == CHOOSE l2 \in Listeners : ListenerOrder(l2) = i
         IN NotifyFrom(IF l \in m.listeners
                       THEN CatchListenerError(CallListener(m, l, address))
                       ELSE m,
                       address, i + 1)

\* notifyAccountChange(address): every listener is called inside its own
\* try/catch, so each registered listener receives the address.
notifyAccountChange(m, address) == NotifyFrom(m, address, 1)

\* Mutant: the handler does not compare the new address with the current one
onWalletChange_alwaysNotifies(m, accounts) ==
    IF Len(accounts) = 0 THEN m
    ELSE LET newAccount == accounts[1]
         IN IF m.account # NoAccount
            THEN notifyAccountChange(
                    [m EXCEPT !.account = newAccount,
                              !.store[KeyAddr] = newAccount.address],
                    newAccount.address)
            ELSE m

\* Mutant: the handler does not persist the new address
onWalletChange_noPersist(m, accounts) ==
    IF Len(accounts) = 0 THEN m
    ELSE LET newAccount == accounts[1]
         IN IF m.account # NoAccount /\ newAccount.address # m.account.address
            THEN notifyAccountChange([m EXCEPT !.account = newAccount],
                                     newAccount.address)
            ELSE m

\* Mutant: an empty account list is taken as a disconnect
onWalletChange_emptyDisconnects(m, accounts) ==
    IF Len(accounts) = 0
    THEN [m EXCEPT !.wallet = Null, !.account = NoAccount, !.store = NoStore]
    ELSE LET newAccount == accounts[1]
         IN IF m.account # NoAccount /\ newAccount.address # m.account.address
            THEN notifyAccountChange(
                    [m EXCEPT !.account = newAccount,
                              !.store[KeyAddr] = newAccount.address],
                    newAccount.address)
            ELSE m

\* The 'change' handler registered by subscribeToWalletEvents.
onWalletChange(m, accounts) ==
    IF Len(accounts) = 0 THEN m
    ELSE LET newAccount == accounts[1]
         IN IF m.account # NoAccount /\ newAccount.address # m.account.address
            THEN notifyAccountChange(
                    [m EXCEPT !.account = newAccount,
                              !.store[KeyAddr] = newAccount.address],
                    newAccount.address)
            ELSE m

\* subscribeToWalletEvents(wallet); the handle is the unsubscribe closure of
\* the wallet it was obtained from.
subscribeToWalletEvents(m, wallet) ==
    LET m1 == IF m.unsub # Null
              THEN [m EXCEPT !.handlers = @ \ {m.unsub}, !.unsub = Null]
              ELSE m
    IN IF ~HasEvents(wallet) THEN m1
       ELSE [m1 EXCEPT !.handlers = @ \cup {wallet}, !.unsub = wallet]

\* Mutant: the poll reacts only when the current account has disappeared
checkForAccountChange_onlyIfMissing(m, liveAccounts) ==
    IF m.wallet = Null \/ m.account = NoAccount THEN m
    ELSE IF Len(liveAccounts) = 0 THEN m
    ELSE LET stillExists == \E i \in 1..Len(liveAccounts) :
                                liveAccounts[i].address = m.account.address
             activeAccount == liveAccounts[1]
         IN IF ~stillExists
            THEN notifyAccountChange(
                    [m EXCEPT !.account = activeAccount,
                              !.store[KeyAddr] = activeAccount.address],
                    activeAccount.address)
            ELSE m

\* checkForAccountChange(), liveAccounts being currentWallet.accounts
checkForAccountChange(m, liveAccounts) ==
    IF m.wallet = Null \/ m.account = NoAccount THEN m
    ELSE IF Len(liveAccounts) = 0 THEN m
    ELSE LET stillExists == \E i \in 1..Len(liveAccounts) :
                                liveAccounts[i].address = m.account.address
             activeAccount == liveAccounts[1]
         IN IF ~stillExists \/ activeAccount.address # m.account.address
            THEN notifyAccountChange(
                    [m EXCEPT !.account = activeAccount,
                              !.store[KeyAddr] = activeAccount.address],
                    activeAccount.address)
            ELSE m

\* ---------------------------------------------------------- discovery
StartsWith(s, p) == Len(s) >= Len(p) /\ SubSeq(s, 1, Len(p)) = p

\* Mutant: only the first chain of a wallet is looked at
IsSui_firstChainOnly(w) ==
    /\ HasChains(w)
    /\ Len(Chains(w)) > 0
    /\ StartsWith(Chains(w)[1], <<"s","u","i",":">>)

\* wallet.chains && wallet.chains.some(chain => chain.startsWith('sui:'))
IsSui(w) ==
    /\ HasChains(w)
    /\ \E i \in 1..Len(Chains(w)) : StartsWith(Chains(w)[i], <<"s","u","i",":">>)

\* getWallets(): the registry object of the Wallet Standard, get() returning
\* reg; NoWallets is a host where the call yields nothing
getWallets(reg) == [present |-> TRUE, list |-> reg]
NoWallets == [present |-> FALSE, list |-> <<>>]

\* getSuiWallets(), wallets being what getWallets() returns
getSuiWallets(wallets) ==
    IF ~wallets.present \/ Len(wallets.list) = 0 THEN <<>>
    ELSE SelectSeq(wallets.list, IsSui)

\* allWallets.find(w => w.name === savedWalletName)
FindByName(reg, name) ==
    IF \E i \in 1..Len(reg) : Name(reg[i]) = name
    THEN reg[CHOOSE i \in 1..Len(reg) :
                /\ Name(reg[i]) = name
                /\ \A j \in 1..(i - 1) : Name(reg[j]) # name]
    ELSE Null

\* ------------------------------------------------- the wallet extension
\* standard:connect settles: a resolved connect leaves the page authorized
\* (later calls return the cached accounts without prompting).
ProviderConnect(m, w, outcome) ==
    IF outcome = "accounts" THEN [m EXCEPT !.auth[w] = TRUE] ELSE m

\* features['standard:disconnect']?.disconnect(): absent on some wallets,
\* may throw, otherwise drops the cached authorization.
ProviderRevoke(m, w, rv) ==
    IF ~HasRevoke(w) THEN m
    ELSE IF rv = "throw" THEN [m EXCEPT !.exc = "RevokeFailed"]
    ELSE [m EXCEPT !.auth[w] = FALSE]

\* wallet.accounts: the accounts the page is authorized to see, live
LiveAccounts(w, list, auth) == IF auth[w] THEN AccountsOf(w, list) ELSE <<>>

\* ----------------------------------------------------------- disconnect
\* Mutant: no try / catch around the revoke call
IgnoreErrors_rethrows(m) == m

\* try { ... } catch (e) { /* ignore */ } around the revoke call
IgnoreErrors(m) == [m EXCEPT !.exc = Null]

\* Mutant: disconnectWallet() without the two removeItem calls
disconnectWallet_keepsSession(m, rv) ==
    LET m1 == IF m.unsub # Null
              THEN [m EXCEPT !.handlers = @ \ {m.unsub}, !.unsub = Null]
              ELSE m
        m2 == IF m1.wallet # Null
              THEN IgnoreErrors(ProviderRevoke(m1, m1.wallet, rv))
              ELSE m1
    IN [m2 EXCEPT !.wallet = Null, !.account = NoAccount]

\* Mutant: disconnectWallet() leaves the 'change' subscription in place
disconnectWallet_keepsSubscription(m, rv) ==
    LET m2 == IF m.wallet # Null
              THEN IgnoreErrors(ProviderRevoke(m, m.wallet, rv))
              ELSE m
    IN [m2 EXCEPT !.wallet = Null, !.account = NoAccount, !.unsub = Null,
                  !.store = [k \in Keys |-> Null]]

\* Mutant: the in-memory state is cleared before the revoke call
disconnectWallet_clearsFirst(m, rv) ==
    LET m1 == IF m.unsub # Null
              THEN [m EXCEPT !.handlers = @ \ {m.unsub}, !.unsub = Null]
              ELSE m
        m2 == [m1 EXCEPT !.wallet = Null, !.account = NoAccount]
        m3 == IF m2.wallet # Null
              THEN IgnoreErrors(ProviderRevoke(m2, m2.wallet, rv))
              ELSE m2
    IN [m3 EXCEPT !.store = [k \in Keys |-> Null]]

\* disconnectWallet()
disconnectWallet(m, rv) ==
    LET m1 == IF m.unsub # Null
              THEN [m EXCEPT !.handlers = @ \ {m.unsub}, !.unsub = Null]
              ELSE m
        m2 == IF m1.wallet # Null
              THEN IgnoreErrors(ProviderRevoke(m1, m1.wallet, rv))
              ELSE m1
    IN IF m2.exc # Null THEN m2
       ELSE [m2 EXCEPT !.wallet = Null, !.account = NoAccount,
                       !.store = [k \in Keys |-> Null]]

\* -------------------------------------------------------------- connect
\* Mutant: the error is rethrown without resetting wallet and account
connectWallet_catch_noReset(x, error) ==
    Throw(x, error)

\* catch (error) { currentWallet = null; currentAccount = null; throw error }
connectWallet_catch(x, error) ==
    Throw([x EXCEPT !.m.wallet = Null, !.m.account = NoAccount], error)

\* connectToWallet(wallet) up to its first await: the provider's connect
\* capability is invoked (it prompts the user unless authorization is cached)
connectToWallet(x, wallet) ==
    [Log(x, <<"connect", wallet>>) EXCEPT
        !.m.wallet = wallet, !.k.wallet = wallet, !.k.pc = "connectAwait",
        !.k.prompted = ~x.m.auth[wallet]]

\* Mutant: the subscription is started before the Session is written
connectToWallet_save_subscribesFirst(x) ==
    LET wallet == x.k.wallet
        x1 == [Log(x, <<"subscribe", wallet>>) EXCEPT
                  !.m = subscribeToWalletEvents(x.m, wallet)]
        x2 == setItem(x1, KeyName, Name(wallet))
        x3 == setItem(x2, KeyAddr, x2.m.account.address)
    IN Return(x3, x3.m.account.address)

\* connectToWallet after an account is chosen: save, subscribe, return
connectToWallet_save(x) ==
    LET wallet == x.k.wallet
        x1 == setItem(x, KeyName, Name(wallet))
        x2 == setItem(x1, KeyAddr, x1.m.account.address)
        x3 == [Log(x2, <<"subscribe", wallet>>) EXCEPT
                  !.m = subscribeToWalletEvents(x2.m, wallet)]
    IN Return(x3, x3.m.account.address)

\* connectToWallet after the provider's connect settled
connectToWallet_connected(x0, outcome, accounts) ==
    LET accs == IF outcome = "accounts" THEN accounts ELSE <<>>
        x == [Log(x0, <<"settled", outcome>>) EXCEPT !.k.accounts = accs]
    IN IF outcome = "reject" THEN connectWallet_catch(x, "ProviderRejected")
       ELSE IF Len(accs) = 0 THEN connectWallet_catch(x, "NoAccountsFound")
       ELSE IF Len(accs) = 1
            THEN connectToWallet_save([x EXCEPT !.m.account = accs[1]])
       ELSE showAccountPicker(x)

\* connectToWallet after showAccountPicker settled (NoAccount: cancelled)
connectToWallet_picked(x, picked) ==
    LET x1 == Log(x, <<"accountPicked", picked.address>>)
    IN IF picked = NoAccount
       THEN Return([x1 EXCEPT !.m.wallet = Null], Null)
       ELSE connectToWallet_save([x1 EXCEPT !.m.account = picked])

\* Mutant: the picker is shown even for a single wallet
connectWallet_alwaysPicks(x, reg) ==
    LET suiWallets == getSuiWallets(getWallets(reg))
        x1 == [Log(x, <<"discover", "">>) EXCEPT !.k.reg = reg]
    IN IF Len(suiWallets) = 0 THEN connectWallet_catch(x1, "NoProviderFound")
       ELSE showWalletPicker(x1, suiWallets)

\* Mutant: the first available wallet is used without asking
connectWallet_firstAvailable(x, reg) ==
    LET suiWallets == getSuiWallets(getWallets(reg))
        x1 == [Log(x, <<"discover", "">>) EXCEPT !.k.reg = reg]
    IN IF Len(suiWallets) = 0 THEN connectWallet_catch(x1, "NoProviderFound")
       ELSE connectToWallet(x1, suiWallets[1])

\* Mutant: no wallet found is reported as a cancellation, not as an error
connectWallet_noWalletReturnsNull(x, reg) ==
    LET suiWallets == getSuiWallets(getWallets(reg))
        x1 == [Log(x, <<"discover", "">>) EXCEPT !.k.reg = reg]
    IN IF Len(suiWallets) = 0 THEN Return(x1, Null)
       ELSE IF Len(suiWallets) = 1 THEN connectToWallet(x1, suiWallets[1])
       ELSE showWalletPicker(x1, suiWallets)

\* Mutant: the wallet list read by the previous connectWallet() is reused
connectWallet_cachedList(x, reg) ==
    LET cached == IF call[x.k.slot].op = "connect" THEN call[x.k.slot].reg ELSE reg
        suiWallets == getSuiWallets(getWallets(cached))
        x1 == [Log(x, <<"discover", "">>) EXCEPT !.k.reg = cached]
    IN IF Len(suiWallets) = 0 THEN connectWallet_catch(x1, "NoProviderFound")
       ELSE IF Len(suiWallets) = 1 THEN connectToWallet(x1, suiWallets[1])
       ELSE showWalletPicker(x1, suiWallets)

\* connectWallet() up to its first await
connectWallet(x, reg) ==
    LET suiWallets == getSuiWallets(getWallets(reg))
        x1 == [Log(x, <<"discover", "">>) EXCEPT !.k.reg = reg]
    IN IF Len(suiWallets) = 0 THEN connectWallet_catch(x1, "NoProviderFound")
       ELSE IF Len(suiWallets) = 1 THEN connectToWallet(x1, suiWallets[1])
       ELSE showWalletPicker(x1, suiWallets)

\* connectWallet() after showWalletPicker settled (Null: cancelled)
connectWallet_picked(x, wallet) ==
    LET x1 == Log(x, <<"walletPicked", wallet>>)
    IN IF wallet = Null THEN Return(x1, Null) ELSE connectToWallet(x1, wallet)

\* -------------------------------------------------------------- restore
\* Mutant: the catch block lets the error through
restoreWalletConnection_catch_rethrows(x, rv) ==
    Throw(x, "ProviderRejected")

\* Mutant: the catch block returns null without the cleanup
restoreWalletConnection_catch_returnsOnly(x, rv) ==
    Return(x, Null)

\* catch (error) { disconnectWallet(); return null }
restoreWalletConnection_catch(x, rv) ==
    LET m == disconnectWallet(x.m, rv)
        x1 == Log([x EXCEPT !.m = IgnoreErrors(m)], <<"disconnect", "">>)
    IN IF m.exc # Null THEN Throw(x1, m.exc) ELSE Return(x1, Null)

\* currentWallet = wallet; wallet.features['standard:connect'].connect()
restoreWalletConnection_connect(x, wallet) ==
    [Log(x, <<"connect", wallet>>) EXCEPT
        !.m.wallet = wallet, !.k.wallet = wallet, !.k.pc = "restoreAwait",
        !.k.prompted = ~x.m.auth[wallet]]

\* Mutant: the saved data is not cleared when the wallet is not found
restoreWalletConnection_notFound_keepsSession(x) ==
    Return(x, Null)

\* if (!wallet) { removeItem; removeItem; return null }
restoreWalletConnection_notFound(x) ==
    Return(removeItem(removeItem(x, KeyName), KeyAddr), Null)

\* Mutant: the loop waits after its last attempt too and tries once more
restoreWalletConnection_lookup_extraAttempt(x, reg) ==
    LET wallet == FindByName(reg, x.k.savedName)
    IN IF wallet # Null
       THEN restoreWalletConnection_connect(Log(x, <<"lookup", "found">>), wallet)
       ELSE LET x1 == Log(x, <<"lookup", "missing">>)
            IN IF x.k.i < maxRetries
               THEN [Log(x1, <<"delay", "">>) EXCEPT !.k.pc = "retryDelay"]
               ELSE restoreWalletConnection_notFound(x1)

\* One turn of the retry loop: look the saved name up in the registry
restoreWalletConnection_lookup(x, reg) ==
    LET wallet == FindByName(reg, x.k.savedName)
    IN IF wallet # Null
       THEN restoreWalletConnection_connect(Log(x, <<"lookup", "found">>), wallet)
       ELSE LET x1 == Log(x, <<"lookup", "missing">>)
            IN IF x.k.i < maxRetries - 1
               THEN [Log(x1, <<"delay", "">>) EXCEPT !.k.pc = "retryDelay"]
               ELSE restoreWalletConnection_notFound(x1)

\* Mutant: restore does not check that a Session is stored
restoreWalletConnection_noSessionCheck(x, reg) ==
    restoreWalletConnection_lookup(
        [x EXCEPT !.k.savedName = x.m.store[KeyName],
                  !.k.savedAddr = x.m.store[KeyAddr], !.k.i = 0], reg)

\* restoreWalletConnection() up to its first await
restoreWalletConnection(x, reg) ==
    LET savedWalletName == x.m.store[KeyName]
        savedAddress == x.m.store[KeyAddr]
    IN IF savedWalletName = Null \/ savedAddress = Null THEN Return(x, Null)
       ELSE restoreWalletConnection_lookup(
                [x EXCEPT !.k.savedName = savedWalletName,
                          !.k.savedAddr = savedAddress, !.k.i = 0], reg)

\* The retry delay elapsed: i++ and the next turn of the loop
restoreWalletConnection_retry(x, reg) ==
    restoreWalletConnection_lookup([x EXCEPT !.k.i = @ + 1], reg)

\* Mutant: zero accounts end the restore without a disconnect
restoreWalletConnection_empty_returnsOnly(x, rv) ==
    Return(x, Null)

\* if (accounts.length === 0) { disconnectWallet(); return null }, inside try
restoreWalletConnection_empty(x, rv) ==
    LET m == disconnectWallet(x.m, rv)
        x1 == Log([x EXCEPT !.m = IgnoreErrors(m)], <<"disconnect", "">>)
    IN IF m.exc # Null THEN restoreWalletConnection_catch(x1, rv)
       ELSE Return(x1, Null)

\* Mutant: the first returned account is selected, whatever was saved
restoreWalletConnection_connected_firstAccount(x0, outcome, accounts, rv) ==
    LET accs == IF outcome = "accounts" THEN accounts ELSE <<>>
        x == [Log(x0, <<"settled", outcome>>) EXCEPT !.k.accounts = accs]
    IN IF outcome = "reject" THEN restoreWalletConnection_catch(x, rv)
       ELSE IF Len(accs) = 0
            THEN restoreWalletConnection_empty(x, rv)
            ELSE LET account == accs[1]
                     x1 == setItem([x EXCEPT !.m.account = account],
                                   KeyAddr, account.address)
                     x2 == [Log(x1, <<"subscribe", x.k.wallet>>) EXCEPT
                               !.m = subscribeToWalletEvents(x1.m, x.k.wallet)]
                 IN Return(x2, account.address)

\* restoreWalletConnection() after the provider's connect settled
restoreWalletConnection_connected(x0, outcome, accounts, rv) ==
    LET accs == IF outcome = "accounts" THEN accounts ELSE <<>>
        x == [Log(x0, <<"settled", outcome>>) EXCEPT !.k.accounts = accs]
    IN IF outcome = "reject" THEN restoreWalletConnection_catch(x, rv)
       ELSE IF Len(accs) = 0
            THEN restoreWalletConnection_empty(x, rv)
            ELSE LET saved == {i \in 1..Len(accs) : accs[i].address = x.k.savedAddr}
                     account == IF saved # {}
                                THEN accs[CHOOSE i \in saved : \A j \in saved : i <= j]
                                ELSE accs[1]
                     x1 == setItem([x EXCEPT !.m.account = account],
                                   KeyAddr, account.address)
                     x2 == [Log(x1, <<"subscribe", x.k.wallet>>) EXCEPT
                               !.m = subscribeToWalletEvents(x1.m, x.k.wallet)]
                 IN Return(x2, account.address)

\* ================================================================ actions

isWalletConnected == currentWallet # Null /\ currentAccount # NoAccount
getWalletAddress == currentAccount.address

Outcomes == {"accounts", "undefined", "reject"}
RevokeOutcomes == {"ok", "throw"}

\* What completed last: the operation, its call, whether it threw, how many
\* times in a row it ran and, for a disconnect, the provider it was connected
\* to and what became of the revoke call
NoOp ==
    [op |-> "none", slot |-> 0, threw |-> FALSE, run |-> 0,
     wallet |-> Null, revoke |-> "none"]

\* currentWallet.features['standard:disconnect']?.disconnect() as seen by the
\* caller: not reached, capability absent, returned, threw
RevokeCall(wallet, rv) ==
    IF wallet = Null THEN "none"
    ELSE IF ~HasRevoke(wallet) THEN "absent"
    ELSE rv

NoChange ==
    [active |-> FALSE, wallet |-> Null, before |-> Null, first |-> Null, seen |-> {}]

\* A step of call c ends in x: memory, the call, and what completed last
Step(c, x) ==
    /\ Commit(Continue(x).m)
    /\ call' = [call EXCEPT ![c] = x.k]
    /\ last' = IF x.k.pc = "done"
               THEN [NoOp EXCEPT !.op = x.k.op, !.slot = c,
                                 !.threw = x.k.ret.kind = "throw", !.run = 1]
               ELSE [NoOp EXCEPT !.op = "pending", !.slot = c]

HostUnchanged == UNCHANGED <<registry, accts, pendingEvent, nChanges>>

\* A public operation starts: only when no other call is suspended
CanStart == nOps < MaxOps /\ Quiet

\* The memory and the call record at the start of a call; the page calls
\* connectWallet() from handleWalletConnect(), which it reaches only when
\* isWalletConnected() is false, and restoreWalletConnection() from init()
StartCall(op) ==
    LET k == NewCall(op, Mem)
    IN [m |-> IF k.caller = "handleWalletConnect"
              THEN [Mem EXCEPT !.page = handleWalletConnect(@)]
              ELSE Mem,
        k |-> k]

\* toggleWallet() when isWalletConnected() is true
toggleWallet(m, rv) ==
    LET m1 == disconnectWallet(m, rv)
    IN IF m1.exc # Null THEN m1
       ELSE [m1 EXCEPT !.page = updateWalletButton(@, FALSE, Null)]

\* connectWallet() is called
Connect ==
    /\ CanStart
    /\ Step(FreeSlot, connectWallet(StartCall("connect"), registry))
    /\ nOps' = nOps + 1
    /\ chg' = NoChange
    /\ HostUnchanged

\* The user clicks a wallet in the picker, or dismisses it
PickWallet(c) ==
    /\ call[c].pc = "walletPicker"
    /\ \E input \in PickerInputs({call[c].items[i] : i \in 1..Len(call[c].items)}) :
          IF PickerFires(modal, <<c, "wallet">>, input[1])
          THEN /\ Step(c, connectWallet_picked(
                            PickerSettle([m |-> Mem, k |-> call[c]], "wallet", input[1]),
                            input[2]))
               /\ UNCHANGED <<nOps, chg>>
               /\ HostUnchanged
          ELSE UNCHANGED vars

\* The provider's connect settles for a suspended connectWallet()
ConnectSettles(c) ==
    /\ call[c].pc = "connectAwait"
    /\ \E outcome \in Outcomes :
          LET w == call[c].wallet
              m == ProviderConnect(Mem, w, outcome)
          IN Step(c, connectToWallet_connected([m |-> m, k |-> call[c]], outcome,
                                               AccountsOf(w, accts[w])))
    /\ UNCHANGED <<nOps, chg>>
    /\ HostUnchanged

\* The user clicks an account in the picker, or dismisses it
PickAccount(c) ==
    /\ call[c].pc = "accountPicker"
    /\ \E input \in PickerInputs({call[c].accounts[i] : i \in 1..Len(call[c].accounts)}) :
          IF PickerFires(modal, <<c, "account">>, input[1])
          THEN /\ Step(c, connectToWallet_picked(
                            PickerSettle([m |-> Mem, k |-> call[c]], "account", input[1]),
                            IF input[1] = "item" THEN input[2] ELSE NoAccount))
               /\ UNCHANGED <<nOps, chg>>
               /\ HostUnchanged
          ELSE UNCHANGED vars

\* restoreWalletConnection() is called
Restore ==
    /\ CanStart
    /\ Step(FreeSlot, restoreWalletConnection(StartCall("restore"), registry))
    /\ nOps' = nOps + 1
    /\ chg' = NoChange
    /\ HostUnchanged

\* The 500 ms timer of the retry loop fires
RetryDelayElapsed(c) ==
    /\ call[c].pc = "retryDelay"
    /\ Step(c, restoreWalletConnection_retry([m |-> Mem, k |-> call[c]], registry))
    /\ UNCHANGED <<nOps, chg>>
    /\ HostUnchanged

\* The provider's connect settles for a suspended restoreWalletConnection()
RestoreSettles(c) ==
    /\ call[c].pc = "restoreAwait"
    /\ \E outcome \in Outcomes, rv \in RevokeOutcomes :
          LET w == call[c].wallet
              m == ProviderConnect(Mem, w, outcome)
          IN Step(c, restoreWalletConnection_connected([m |-> m, k |-> call[c]], outcome,
                                                       AccountsOf(w, accts[w]), rv))
    /\ UNCHANGED <<nOps, chg>>
    /\ HostUnchanged

\* disconnectWallet() is called
Disconnect ==
    /\ CanStart
    /\ \E rv \in RevokeOutcomes :
          LET m == IF isWalletConnected THEN toggleWallet(Mem, rv)
                   ELSE disconnectWallet(Mem, rv)
          IN /\ Commit(m)
             /\ last' = [NoOp EXCEPT !.op = "disconnect", !.threw = m.exc # Null,
                                     !.run = IF last.op = "disconnect" THEN 2 ELSE 1,
                                     !.wallet = currentWallet,
                                     !.revoke = RevokeCall(currentWallet, rv)]
    /\ nOps' = nOps + 1
    /\ chg' = NoChange
    /\ UNCHANGED call
    /\ HostUnchanged

\* The page registers a listener while it initialises: onAccountChange(listener)
OnAccountChange(l) ==
    /\ Quiet
    /\ nOps = 0
    /\ l \notin accountChangeListeners
    /\ \A l2 \in Listeners \ accountChangeListeners : ListenerOrder(l) <= ListenerOrder(l2)
    /\ Commit(onAccountChange(Mem, l))
    /\ UNCHANGED <<call, last, chg, nOps>>
    /\ HostUnchanged

\* document 'visibilitychange' with visibilityState === 'visible'
VisibilityChange ==
    /\ Quiet
    /\ LET m == checkForAccountChange(Mem,
                    IF currentWallet = Null THEN <<>>
                    ELSE LiveAccounts(currentWallet, accts[currentWallet], authorized))
       IN /\ Commit(m)
          /\ last' = [NoOp EXCEPT !.op = "callback", !.run = 1, !.threw = m.exc # Null]
    /\ chg' = IF chg.active THEN [chg EXCEPT !.seen = @ \cup {"visibility"}] ELSE chg
    /\ UNCHANGED <<call, nOps>>
    /\ HostUnchanged

\* The wallet's 'change' event reaches the page: the handler runs if it is
\* still registered on that wallet
WalletChangeEvent ==
    /\ Quiet
    /\ pendingEvent # NoEvent
    /\ IF pendingEvent.wallet \in walletHandlers
       THEN /\ LET m == onWalletChange(Mem, pendingEvent.accounts)
               IN /\ Commit(m)
                  /\ last' = [NoOp EXCEPT !.op = "callback", !.run = 1,
                                          !.threw = m.exc # Null]
            /\ chg' = IF chg.active THEN [chg EXCEPT !.seen = @ \cup {"event"}] ELSE chg
       ELSE /\ Commit(Mem)
            /\ UNCHANGED <<last, chg>>
    /\ pendingEvent' = NoEvent
    /\ UNCHANGED <<call, nOps, registry, accts, nChanges>>

\* A wallet extension registers itself with the host's registry
RegisterWallet(w) ==
    /\ Len(registry) < Len(LoadOrder)
    /\ w = LoadOrder[Len(registry) + 1]
    /\ \A i \in 1..Len(registry) : registry[i] # w
    /\ registry' = Append(registry, w)
    /\ UNCHANGED <<currentWallet, currentAccount, unsubscribeEvents,
                   accountChangeListeners, localStorage, accts, authorized,
                   walletHandlers, pendingEvent, modal, page, call, last, received, chg,
                   nOps, nChanges>>

\* The user changes the account list of a wallet the page is authorized on;
\* the wallet may or may not emit its 'change' event
AccountsChanged(w, list, emit) ==
    /\ nChanges < MaxChanges
    /\ pendingEvent = NoEvent
    /\ list # accts[w]
    /\ authorized[w]
    /\ accts' = [accts EXCEPT ![w] = list]
    /\ pendingEvent' = IF emit /\ HasEvents(w) /\ authorized[w]
                       THEN [wallet |-> w, accounts |-> LiveAccounts(w, list, authorized)]
                       ELSE NoEvent
    /\ nChanges' = nChanges + 1
    /\ received' = [l \in Listeners |-> <<>>]
    /\ chg' = [active |-> Quiet /\ isWalletConnected /\ currentWallet = w /\ authorized[w],
               wallet |-> w, before |-> currentAccount.address,
               first |-> IF Len(list) = 0 THEN Null ELSE list[1],
               seen |-> {}]
    /\ UNCHANGED <<currentWallet, currentAccount, unsubscribeEvents,
                   accountChangeListeners, localStorage, registry, authorized,
                   walletHandlers, modal, page, call, last, nOps>>

\* The sessions an earlier page load can have left in storage
SavedSessions ==
    UNION {{[k \in Keys |-> IF k = KeyName THEN Name(w) ELSE a] : a \in Addresses(w)} :
           w \in SuiProviders}

\* What a page load left whose restore was overtaken by a disconnect: the
\* disconnect removed both keys, the resumed restore wrote the address back
PartialSessions ==
    {[k \in Keys |-> IF k = KeyName THEN Null ELSE InitialAccounts(w)[1]] :
        w \in {v \in SuiProviders : HasRevoke(v)}}

Init ==
    /\ currentWallet = Null
    /\ currentAccount = NoAccount
    /\ unsubscribeEvents = Null
    /\ accountChangeListeners = {}
    /\ localStorage \in {NoStore} \cup SavedSessions \cup PartialSessions
    /\ registry = <<>>
    /\ accts = [w \in SuiProviders |-> InitialAccounts(w)]
    /\ authorized = [w \in SuiProviders |-> localStorage[KeyName] = Name(w)]
    /\ walletHandlers = {}
    /\ pendingEvent = NoEvent
    /\ modal = NoModal
    /\ page = NoPage
    /\ call = [c \in Slots |-> IdleCall]
    /\ last = NoOp
    /\ received = [l \in Listeners |-> <<>>]
    /\ chg = NoChange
    /\ nOps = 0
    /\ nChanges = 0

Next ==
    \/ Connect
    \/ \E c \in Slots : PickWallet(c)
    \/ \E c \in Slots : ConnectSettles(c)
    \/ \E c \in Slots : PickAccount(c)
    \/ Restore
    \/ \E c \in Slots : RetryDelayElapsed(c)
    \/ \E c \in Slots : RestoreSettles(c)
    \/ Disconnect
    \/ \E l \in Listeners : OnAccountChange(l)
    \/ VisibilityChange
    \/ WalletChangeEvent
    \/ \E w \in Providers : RegisterWallet(w)
    \/ \E w \in SuiProviders : \E list \in AccountLists(w), emit \in BOOLEAN :
          AccountsChanged(w, list, emit)

Spec == Init /\ [][Next]_vars

\* The browser fires every timer that was set: the 500 ms timer of the retry
\* loop (setTimeout at part_003:242) is not held back for ever
FairSpec == Spec /\ \A c \in Slots : WF_vars(RetryDelayElapsed(c))

\* --------------------------------------- disconnect during another call
\* A first page load: storage holds a whole Session or none
InitClean == Init /\ localStorage \notin PartialSessions

\* disconnectWallet() can be called while a connectWallet() or a
\* restoreWalletConnection() is suspended at an await
CanOverlap == nOps < MaxOps /\ ~Quiet

\* A suspended call remembers the operations that ran while it waited
RanDuring(k, op) ==
    IF k.pc \in {"idle", "done"} THEN k ELSE [k EXCEPT !.during = @ \cup {op}]

\* disconnectWallet() is called while another call is suspended
DisconnectDuring ==
    /\ CanOverlap
    /\ \E rv \in RevokeOutcomes :
          LET m == IF isWalletConnected THEN toggleWallet(Mem, rv)
                   ELSE disconnectWallet(Mem, rv)
          IN /\ Commit(m)
             /\ last' = [NoOp EXCEPT !.op = "disconnect", !.threw = m.exc # Null,
                                     !.run = IF last.op = "disconnect" THEN 2 ELSE 1,
                                     !.wallet = currentWallet,
                                     !.revoke = RevokeCall(currentWallet, rv)]
    /\ nOps' = nOps + 1
    /\ chg' = NoChange
    /\ call' = [c \in Slots |-> RanDuring(call[c], "disconnect")]
    /\ HostUnchanged

NextConc == Next \/ DisconnectDuring

SpecConc == InitClean /\ [][NextConc]_vars

\* ------------------------------------------- connect clicked twice
\* connectWallet() is called while an earlier connectWallet() is suspended:
\* the page reaches handleWalletConnect() again because isWalletConnected()
\* is still false
ConnectDuring ==
    /\ CanOverlap
    /\ \E c \in Slots : Idle(c)
    /\ \A c \in Slots : ~Idle(c) => call[c].op = "connect"
    /\ LET c == FreeSlot
           x0 == StartCall("connect")
           x == Continue(connectWallet([x0 EXCEPT !.k.during = {"connect"}], registry))
       IN /\ Commit(x.m)
          /\ call' = [d \in Slots |-> IF d = c THEN x.k
                                      ELSE RanDuring(call[d], "connect")]
          /\ last' = IF x.k.pc = "done"
                     THEN [NoOp EXCEPT !.op = x.k.op, !.slot = c,
                                       !.threw = x.k.ret.kind = "throw", !.run = 1]
                     ELSE [NoOp EXCEPT !.op = "pending", !.slot = c]
    /\ nOps' = nOps + 1
    /\ chg' = NoChange
    /\ HostUnchanged

\* The picker invocations that have not settled
OpenPickers ==
    {inv \in Slots \X {"wallet", "account"} : call[inv[1]].pc = PickerPc(inv[2])}

\* The values of the item buttons in the modal's list
ListValues ==
    IF modal.list \notin OpenPickers THEN {}
    ELSE LET k == call[modal.list[1]]
         IN IF modal.list[2] = "wallet"
            THEN {k.items[i] : i \in 1..Len(k.items)}
            ELSE {k.accounts[i] : i \in 1..Len(k.accounts)}

\* The invocations whose handler an input reaches, in the order in which
\* the handlers were registered: the invocation that filled the list last
Fired(on) == {inv \in OpenPickers : PickerFires(modal, inv, on)}

FiredInOrder(on) ==
    LET F == Fired(on)
    IN IF F = {} THEN <<>>
       ELSE IF Cardinality(F) = 1 THEN <<CHOOSE inv \in F : TRUE>>
       ELSE LET older == CHOOSE inv \in F : inv # modal.list
            IN <<older, CHOOSE inv \in F : inv # older>>

\* A handler of invocation inv settles it and the call goes on, up to its
\* next await or to its end, its caller included
ResumePicker(m, inv, input) ==
    LET x == PickerSettle([m |-> m, k |-> call[inv[1]]], inv[2], input[1])
    IN Continue(IF inv[2] = "wallet"
                THEN connectWallet_picked(x, input[2])
                ELSE connectToWallet_picked(x, IF input[1] = "item" THEN input[2]
                                               ELSE NoAccount))

\* The user acts on the modal while one or two picker invocations are
\* pending. Every handler the input reaches runs, each followed by the call
\* it resumes (the promise reactions run before the next handler). With one
\* pending invocation this is PickWallet or PickAccount.
PickerInput ==
    /\ OpenPickers # {}
    /\ \E input \in PickerInputs(ListValues) :
          LET fired == FiredInOrder(input[1])
          IN IF Len(fired) = 0 THEN UNCHANGED vars
             ELSE LET xA == ResumePicker(Mem, fired[1], input)
                      xB == IF Len(fired) = 1 THEN xA
                            ELSE ResumePicker(xA.m, fired[2], input)
                      done == fired[Len(fired)][1]
                  IN /\ Commit(xB.m)
                     /\ call' = [c \in Slots |->
                                   IF c = fired[1][1] THEN xA.k
                                   ELSE IF Len(fired) = 2 /\ c = fired[2][1] THEN xB.k
                                   ELSE call[c]]
                     /\ last' = IF xB.k.pc = "done"
                                THEN [NoOp EXCEPT !.op = xB.k.op, !.slot = done,
                                                  !.threw = xB.k.ret.kind = "throw",
                                                  !.run = 1]
                                ELSE [NoOp EXCEPT !.op = "pending", !.slot = done]
                     /\ UNCHANGED <<nOps, chg>>
                     /\ HostUnchanged

NextOverlap ==
    \/ Connect
    \/ ConnectDuring
    \/ PickerInput
    \/ \E c \in Slots : ConnectSettles(c)
    \/ \E w \in Providers : RegisterWallet(w)

SpecOverlap == InitClean /\ [][NextOverlap]_vars

\* ------------------------------------------------ wallet discovery alone
\* getSuiWallets() applied to every registry a host can present: no
\* registry object, or any duplicate-free list of the wallets, W4 included.
\* The input is kept in call[1].reg and the result in call[1].items.
DiscoveryInputs == {NoWallets} \cup {getWallets(l) : l \in ListsOf(DiscoveryProviders)}

DiscoveryInit ==
    /\ currentWallet = Null
    /\ currentAccount = NoAccount
    /\ unsubscribeEvents = Null
    /\ accountChangeListeners = {}
    /\ localStorage = NoStore
    /\ registry = <<>>
    /\ accts = [w \in SuiProviders |-> InitialAccounts(w)]
    /\ authorized = [w \in SuiProviders |-> FALSE]
    /\ walletHandlers = {}
    /\ pendingEvent = NoEvent
    /\ modal = NoModal
    /\ page = NoPage
    /\ \E wallets \in DiscoveryInputs :
          call = [c \in Slots |->
                    IF c = 1 THEN [IdleCall EXCEPT !.op = "getSuiWallets",
                                                   !.pc = "running",
                                                   !.reg = wallets]
                    ELSE IdleCall]
    /\ last = NoOp
    /\ received = [l \in Listeners |-> <<>>]
    /\ chg = NoChange
    /\ nOps = 0
    /\ nChanges = 0

GetSuiWallets ==
    /\ call[1].op = "getSuiWallets" /\ call[1].pc = "running"
    /\ call' = [call EXCEPT ![1] = [@ EXCEPT !.pc = "done",
                                             !.items = getSuiWallets(call[1].reg),
                                             !.ret = [kind |-> "return", val |-> Null]]]
    /\ UNCHANGED <<currentWallet, currentAccount, unsubscribeEvents,
                   accountChangeListeners, localStorage, registry, accts,
                   authorized, walletHandlers, pendingEvent, modal, page, last,
                   received, chg, nOps, nChanges>>

DiscoveryNext == GetSuiWallets

DiscoverySpec == DiscoveryInit /\ [][DiscoveryNext]_vars

\* ================================================================= claims
InLog(k, e) == \E i \in 1..Len(k.log) : k.log[i] = e
LogIndex(k, e) == {i \in 1..Len(k.log) : k.log[i] = e}
HasLogKind(k, kind) == \E i \in 1..Len(k.log) : k.log[i][1] = kind
Completed(c, op) == call[c].op = op /\ call[c].pc = "done"
\* Call c is the operation that completed last and nothing ran since
JustCompleted(c, op) == Completed(c, op) /\ last.op = op /\ last.slot = c
Returned(k, v) == k.ret = [kind |-> "return", val |-> v]
Threw(k, e) == k.ret = [kind |-> "throw", val |-> e]
Connected(s) == s.wallet # Null /\ s.account # NoAccount

\* C1 (as claimed): whenever no operation is in flight, i.e. before and after
\* every public operation (connect, restore, disconnect, a change-detector
\* callback), currentWallet is null exactly when currentAccount is null.
C1_PairingInvariant ==
    Quiet => ((currentWallet = Null) <=> (currentAccount = NoAccount))

\* C2 (as claimed): a connect() whose wallet picker or account picker resolved
\* to none returns none and leaves wallet, account, subscription and the
\* Session Store exactly as they were when connect() was called.
C2_CancellationPurity ==
    \A c \in Slots :
        (/\ JustCompleted(c, "connect")
         /\ \/ InLog(call[c], <<"walletPicked", Null>>)
            \/ InLog(call[c], <<"accountPicked", Null>>))
        => /\ Returned(call[c], Null)
           /\ Snapshot(Mem) = call[c].snap

\* C3: restoreConnection() never throws: every completed restore returned
\* none or an address, whatever the Session, the registry and the provider did.
C3_RestoreNeverThrows ==
    \A c \in Slots :
        Completed(c, "restore")
        => /\ call[c].ret.kind = "return"
           /\ call[c].ret.val \in {Null} \cup UNION {Addresses(w) : w \in Providers}

\* C3 witness: a restore whose provider connect rejected has completed.
C3_Witness ==
    \E c \in Slots :
        /\ Completed(c, "restore")
        /\ InLog(call[c], <<"settled", "reject">>)
        /\ Returned(call[c], Null)

\* C4: disconnect() is idempotent: it never throws, it always ends with wallet,
\* account and subscription null and the Session absent, and a second
\* disconnect() right after the first changes nothing at all.
C4_DisconnectIdempotent ==
    /\ [](last.op = "disconnect"
            => /\ ~last.threw
               /\ currentWallet = Null /\ currentAccount = NoAccount
               /\ unsubscribeEvents = Null /\ localStorage = NoStore)
    /\ [][(last.op = "disconnect" /\ last'.op = "disconnect" /\ nOps' = nOps + 1)
            => UNCHANGED <<currentWallet, currentAccount, unsubscribeEvents,
                           localStorage, walletHandlers, authorized,
                           accountChangeListeners, received>>]_vars

\* C4 witness: two disconnects in a row, the first from a connected state
\* with an active subscription.
C4_Witness ==
    /\ last.op = "disconnect" /\ last.run = 2
    /\ \E c \in Slots : Completed(c, "connect") /\ HasLogKind(call[c], "subscribe")
                        /\ call[c].wallet = "W1"

\* The account-list change chg has been seen by a change-detector channel
\* while connected to the wallet it happened on, and the new list is not empty.
ChangeObserved == chg.active /\ chg.first # Null /\ chg.seen # {}

\* C5 (as claimed): after one account-list change on the active provider,
\* seen by the event channel, by a visibility transition or by both,
\* getAddress() is the new first account's address and every registered
\* listener was invoked exactly once.
C5_ChangeConvergence ==
    ChangeObserved
    => /\ getWalletAddress = chg.first
       /\ \A l \in accountChangeListeners : Len(received[l]) = 1

\* C5 (amended): ... getAddress() is the new first account's address, and every
\* registered listener was invoked exactly once, with that address, if it
\* differs from the address that was current before the change, and not at
\* all if it is the same address.
C5_ChangeConvergenceAmended ==
    ChangeObserved
    => /\ getWalletAddress = chg.first
       /\ \A l \in accountChangeListeners :
             received[l] = IF chg.first # chg.before THEN <<chg.first>> ELSE <<>>

\* C5 witness: both channels saw a change of the first account and both
\* listeners were told once.
C5_Witness ==
    /\ ChangeObserved
    /\ chg.seen = {"event", "visibility"}
    /\ chg.first # chg.before
    /\ accountChangeListeners = Listeners
    /\ \A l \in Listeners : received[l] = <<chg.first>>

\* C6 (as claimed): connect() called while connected returns the current
\* address at once: it is never suspended, queries no registry, shows no
\* picker, invokes no provider connect and leaves state and Session unchanged.
C6_ConnectWhileConnected ==
    \A c \in Slots :
        (call[c].op = "connect" /\ Connected(call[c].snap))
        => /\ call[c].pc = "done"
           /\ Returned(call[c], call[c].snap.account.address)
           /\ call[c].log = <<>>
           /\ JustCompleted(c, "connect") => Snapshot(Mem) = call[c].snap

SuiCount(reg) == Cardinality({i \in 1..Len(reg) : IsSui(reg[i])})

\* C7: with exactly one Sui-compatible provider in the registry, connect()
\* shows no wallet picker, and when that provider's connect returns exactly
\* one account, connect() returns its address without an account picker.
C7_SingleProviderSingleAccount ==
    \A c \in Slots :
        (call[c].op = "connect" /\ SuiCount(call[c].reg) = 1)
        => /\ ~HasLogKind(call[c], "pickWallet")
           /\ (InLog(call[c], <<"settled", "accounts">>) /\ Len(call[c].accounts) = 1)
              => /\ call[c].pc = "done"
                 /\ Returned(call[c], call[c].accounts[1].address)
                 /\ ~HasLogKind(call[c], "pickAccount")

\* C7 witness: such a connect() has returned the single account's address.
C7_Witness ==
    \E c \in Slots :
        /\ Completed(c, "connect") /\ SuiCount(call[c].reg) = 1
        /\ Len(call[c].accounts) = 1
        /\ Returned(call[c], "0xC")

\* C8: with two or more Sui-compatible providers, connect() started while
\* disconnected shows the wallet picker with all of them before any provider
\* connect is invoked; if the picker is dismissed, connect() returns none, no
\* provider connect was invoked and isConnected() is false afterwards.
C8_PickerBeforeConnect ==
    \A c \in Slots :
        (call[c].op = "connect" /\ ~Connected(call[c].snap) /\ SuiCount(call[c].reg) >= 2)
        => /\ HasLogKind(call[c], "pickWallet")
           /\ call[c].items = SelectSeq(call[c].reg, IsSui)
           /\ \A i \in 1..Len(call[c].log) :
                 call[c].log[i][1] = "connect"
                 => \E j \in 1..(i - 1) : call[c].log[j][1] = "pickWallet"
           /\ InLog(call[c], <<"walletPicked", Null>>)
              => /\ call[c].pc = "done"
                 /\ Returned(call[c], Null)
                 /\ ~HasLogKind(call[c], "connect")
                 /\ JustCompleted(c, "connect") => ~isWalletConnected

\* C8 witness: the picker showed both wallets and was dismissed.
C8_Witness ==
    \E c \in Slots :
        /\ JustCompleted(c, "connect") /\ ~Connected(call[c].snap)
        /\ Len(call[c].items) = 2
        /\ InLog(call[c], <<"walletPicked", Null>>)
        /\ Returned(call[c], Null)

HasSession(store) == store[KeyName] # Null /\ store[KeyAddr] # Null

\* C9: when a Session is stored and no lookup attempt finds a provider with
\* the saved name, restoreConnection() returns none after maxRetries lookups,
\* invokes no provider connect, removes both Session keys and leaves wallet,
\* account and subscription as they were.
C9_RestoreProviderNotFound ==
    \A c \in Slots :
        (/\ Completed(c, "restore") /\ HasSession(call[c].snap.store)
         /\ ~InLog(call[c], <<"lookup", "found">>))
        => /\ Returned(call[c], Null)
           /\ Cardinality(LogIndex(call[c], <<"lookup", "missing">>)) = maxRetries
           /\ ~HasLogKind(call[c], "connect")
           /\ JustCompleted(c, "restore")
              => /\ localStorage = NoStore
                 /\ currentWallet = call[c].snap.wallet
                 /\ currentAccount = call[c].snap.account
                 /\ unsubscribeEvents = call[c].snap.unsub

\* C9 witness: a restore with a stored Session gave up after its lookups.
C9_Witness ==
    \E c \in Slots :
        /\ JustCompleted(c, "restore") /\ HasSession(call[c].snap.store)
        /\ ~InLog(call[c], <<"lookup", "found">>)
        /\ localStorage = NoStore

\* C10: when no registered provider is Sui-compatible, connect() fails with
\* NoProviderFound at once, having shown no picker, invoked no provider
\* connect and written nothing to the Session.
C10_NoProviderFound ==
    \A c \in Slots :
        (call[c].op = "connect" /\ SuiCount(call[c].reg) = 0)
        => /\ call[c].pc = "done"
           /\ Threw(call[c], "NoProviderFound")
           /\ call[c].log = << <<"discover", "">> >>
           /\ JustCompleted(c, "connect") => localStorage = call[c].snap.store

\* C10 witness: the registry holds a wallet, but no Sui wallet.
C10_Witness ==
    \E c \in Slots :
        /\ JustCompleted(c, "connect") /\ call[c].reg = <<"W3">>
        /\ Threw(call[c], "NoProviderFound")

\* The Session Store holding exactly (provider name, address)
SessionOf(name, address) == [k \in Keys |-> IF k = KeyName THEN name ELSE address]

\* Positions of the entries of one kind in a call's log
KindIndex(k, kind) == {i \in 1..Len(k.log) : k.log[i][1] = kind}

\* C11: if the chosen provider's connect rejects or yields no account,
\* connect() throws ProviderRejected resp. NoAccountsFound with wallet and
\* account both reset to null, and that call has written nothing to the
\* Session Store and started no event subscription.
C11_ConnectFailureResets ==
    \A c \in Slots :
        (/\ call[c].op = "connect" /\ HasLogKind(call[c], "settled")
         /\ Len(call[c].accounts) = 0)
        => /\ call[c].pc = "done"
           /\ Threw(call[c], IF InLog(call[c], <<"settled", "reject">>)
                             THEN "ProviderRejected" ELSE "NoAccountsFound")
           /\ ~HasLogKind(call[c], "setItem")
           /\ ~HasLogKind(call[c], "removeItem")
           /\ ~HasLogKind(call[c], "subscribe")
           /\ JustCompleted(c, "connect")
              => /\ currentWallet = Null /\ currentAccount = NoAccount
                 /\ localStorage = call[c].snap.store
                 /\ unsubscribeEvents = call[c].snap.unsub

\* C11 witness: the picked provider's connect was rejected.
C11_Witness ==
    \E c \in Slots :
        /\ JustCompleted(c, "connect")
        /\ HasLogKind(call[c], "walletPicked")
        /\ Threw(call[c], "ProviderRejected")
        /\ currentWallet = Null /\ currentAccount = NoAccount

C13_RestoreWithoutSession ==
    \A c \in Slots :
        (call[c].op = "restore" /\ ~HasSession(call[c].snap.store))
        => /\ call[c].pc = "done"
           /\ Returned(call[c], Null)
           /\ call[c].log = <<>>
           /\ JustCompleted(c, "restore") => Snapshot(Mem) = call[c].snap

\* C13 witness: a restore has returned from a store that holds an address
\* but no provider name, while a provider was registered.
C13_Witness ==
    \E c \in Slots :
        /\ JustCompleted(c, "restore")
        /\ call[c].snap.store[KeyName] = Null /\ call[c].snap.store[KeyAddr] # Null
        /\ Len(registry) > 0

FullyDisconnected ==
    /\ currentWallet = Null /\ currentAccount = NoAccount
    /\ unsubscribeEvents = Null /\ localStorage = NoStore

AddressesIn(accounts) == {accounts[i].address : i \in 1..Len(accounts)}

C15_RestoreZeroAccounts ==
    \A c \in Slots :
        (/\ call[c].op = "restore" /\ HasLogKind(call[c], "settled")
         /\ ~InLog(call[c], <<"settled", "reject">>)
         /\ Len(call[c].accounts) = 0)
        => /\ call[c].pc = "done"
           /\ Returned(call[c], Null)
           /\ InLog(call[c], <<"disconnect", "">>)
           /\ ~HasLogKind(call[c], "subscribe")
           /\ JustCompleted(c, "restore")
              => FullyDisconnected /\ call[c].wallet \notin walletHandlers

\* C15 witness: the provider was found and its connect returned no accounts.
C15_Witness ==
    \E c \in Slots :
        /\ JustCompleted(c, "restore")
        /\ InLog(call[c], <<"lookup", "found">>)
        /\ InLog(call[c], <<"settled", "undefined">>)
        /\ Returned(call[c], Null) /\ FullyDisconnected

\* C16: when a step of restoreConnection() after the Session was read raises
\* (the provider's connect rejects), the failure is absorbed: the restore
\* returns none and leaves wallet, account and subscription null and the
\* Session cleared.
C16_RestoreAbsorbsFailure ==
    \A c \in Slots :
        (call[c].op = "restore" /\ InLog(call[c], <<"settled", "reject">>))
        => /\ call[c].pc = "done"
           /\ call[c].ret = [kind |-> "return", val |-> Null]
           /\ JustCompleted(c, "restore") => FullyDisconnected

\* C16 witness: the connect of a restore started from a stored Session was
\* rejected, and the page is fully disconnected.
C16_Witness ==
    \E c \in Slots :
        /\ JustCompleted(c, "restore") /\ HasSession(call[c].snap.store)
        /\ InLog(call[c], <<"settled", "reject">>)
        /\ FullyDisconnected

\* The lookups and delays of a call, in order
RetryTrace(k) ==
    SelectSeq(k.log, LAMBDA e : e[1] \in {"lookup", "delay"})

\* The lookups of a call, in order
Lookups(k) == SelectSeq(k.log, LAMBDA e : e[1] = "lookup")

\* The shapes a retry loop of at most maxRetries attempts may leave behind:
\* misses separated by single delays, ended by a found lookup, by the last
\* miss, or still waiting in a delay
Miss == <<"lookup", "missing">>
Found == <<"lookup", "found">>
Delay == <<"delay", "">>
RECURSIVE Misses(_)
Misses(n) == IF n = 0 THEN <<>> ELSE Misses(n - 1) \o <<Miss, Delay>>
WaitingTraces == {Misses(n) : n \in 1..(maxRetries - 1)}
FoundTraces == {Misses(n) \o <<Found>> : n \in 0..(maxRetries - 1)}
GaveUpTraces == {Misses(maxRetries - 1) \o <<Miss>>}

\* C17: restoreConnection() looks the saved name up at most maxRetries times
\* with one delay between consecutive attempts and none after the last, stops
\* at the first attempt that finds it and then connects; an attempt misses
\* only if the registry holds no provider of that name at that time, so a
\* provider registered before the final attempt is connected to; and every
\* delay ends, so the loop terminates.
C17_BoundedRetry ==
    /\ [](\A c \in Slots :
            (call[c].op = "restore" /\ call[c].log # <<>>)
            => LET k == call[c]
                   t == RetryTrace(k)
               IN /\ k.pc = "retryDelay" <=> t \in WaitingTraces
                  /\ k.pc # "retryDelay" => t \in FoundTraces \cup GaveUpTraces
                  /\ t \in FoundTraces
                     => /\ HasLogKind(k, "connect")
                        /\ ~HasLogKind(k, "removeItem") \/ HasLogKind(k, "settled")
                  /\ t \in GaveUpTraces => k.pc = "done" /\ ~HasLogKind(k, "connect"))
    /\ [][\A c \in Slots :
            (call'[c].op = "restore" /\ Len(Lookups(call'[c])) > 0
             /\ call'[c] # call[c]
             /\ \/ call[c].pc \in {"idle", "done"}
                \/ Len(Lookups(call'[c])) > Len(Lookups(call[c])))
            => LET t == Lookups(call'[c])
               IN (t[Len(t)] = Miss)
                  <=> FindByName(registry, call'[c].savedName) = Null]_vars
    /\ \A c \in Slots : (call[c].pc = "retryDelay") ~> (call[c].pc # "retryDelay")

\* C17 witness: the provider registered during the second delay and the
\* third attempt found it.
C17_Witness ==
    \E c \in Slots :
        /\ call[c].op = "restore"
        /\ RetryTrace(call[c]) = Misses(maxRetries - 1) \o <<Found>>
        /\ InLog(call[c], <<"connect", "W1">>)

\* C18: disconnect() never surfaces a failure: with no current provider, with
\* a provider without the revoke capability, and with a revoke call that
\* throws or returns, it completes normally with the in-memory state and the
\* Session cleared.
C18_DisconnectNeverFails ==
    \A rv \in {"none", "absent", "ok", "throw"} :
        (last.op = "disconnect" /\ last.revoke = rv)
        => /\ ~last.threw
           /\ FullyDisconnected
           /\ (rv = "none") <=> (last.wallet = Null)
           /\ (rv = "absent") <=> (last.wallet # Null /\ ~HasRevoke(last.wallet))

\* C18 witness: the revoke call of the current provider threw.
C18_Witness ==
    /\ last.op = "disconnect" /\ last.revoke = "throw"
    /\ last.wallet = "W1" /\ ~last.threw /\ FullyDisconnected

\* C19: a disconnect() while connected to a provider with the revoke
\* capability calls it on that provider (before the in-memory state is
\* cleared), so that, the call having returned, the provider's cached
\* authorization is dropped and the next connect() on that provider prompts
\* the user.
C19_RevokeForcesPrompt ==
    /\ (last.op = "disconnect" /\ last.revoke = "ok")
       => /\ HasRevoke(last.wallet)
          /\ ~authorized[last.wallet]
    /\ \A c \in Slots :
          (/\ call[c].op = "connect" /\ call[c].revoked # Null
           /\ call[c].wallet = call[c].revoked)
          => call[c].prompted

\* C19 witness: after such a disconnect the next connect() chose the same
\* provider, which prompted, and the call returned an address.
C19_Witness ==
    \E c \in Slots :
        /\ Completed(c, "connect") /\ call[c].revoked = "W1"
        /\ call[c].wallet = "W1" /\ call[c].prompted
        /\ call[c].ret.val \in Addresses("W1")

\* C20: when a change notification with a non-empty account list is delivered
\* to the handler while connected: if the first entry's address differs from
\* the current account's, the current account becomes that entry, the stored
\* address becomes its address and every registered listener is notified with
\* it (once); if it is equal, state and storage are unchanged and no listener
\* is notified.
C20_EventChannel ==
    [][(/\ pendingEvent # NoEvent /\ pendingEvent' = NoEvent
        /\ pendingEvent.wallet \in walletHandlers
        /\ isWalletConnected
        /\ Len(pendingEvent.accounts) > 0)
       => LET newAccount == pendingEvent.accounts[1]
          IN IF newAccount.address # currentAccount.address
             THEN /\ currentAccount' = newAccount
                  /\ localStorage' = [localStorage EXCEPT ![KeyAddr] = newAccount.address]
                  /\ received' = [l \in Listeners |->
                        IF l \in accountChangeListeners
                        THEN Append(received[l], newAccount.address)
                        ELSE received[l]]
                  /\ UNCHANGED <<currentWallet, unsubscribeEvents, accountChangeListeners>>
             ELSE UNCHANGED <<currentWallet, currentAccount, unsubscribeEvents,
                              accountChangeListeners, localStorage, received>>]_vars

\* C20 witness: the handler took over a new first account, persisted it and
\* told the one registered listener.
C20_Witness ==
    /\ chg.active /\ chg.seen = {"event"} /\ chg.first # chg.before
    /\ last.op = "callback"
    /\ accountChangeListeners = {"L1"} /\ received["L1"] = <<chg.first>>
    /\ currentAccount = MkAccount(chg.wallet, chg.first)
    /\ localStorage[KeyAddr] = chg.first

\* What the page can see of the module: state, Session and notifications
Observable == <<currentWallet, currentAccount, unsubscribeEvents, localStorage, received>>

\* C21: when the page becomes visible while connected and the provider's live
\* account list is not empty: if the current address is not in the list or is
\* not the first entry's, the first entry becomes the current account, its
\* address is stored and each registered listener receives that address
\* exactly once; otherwise nothing changes.
C21_VisibilityChannel ==
    [][(VisibilityChange /\ isWalletConnected)
       => LET liveAccounts == LiveAccounts(currentWallet, accts[currentWallet], authorized)
              current == currentAccount.address
          IN Len(liveAccounts) > 0
             => IF \/ current \notin AddressesIn(liveAccounts)
                   \/ current # liveAccounts[1].address
                THEN /\ currentAccount' = liveAccounts[1]
                     /\ localStorage' = [localStorage EXCEPT
                                            ![KeyAddr] = liveAccounts[1].address]
                     /\ \A l \in Listeners :
                           received'[l] = IF l \in accountChangeListeners
                                          THEN Append(received[l], liveAccounts[1].address)
                                          ELSE received[l]
                     /\ UNCHANGED <<currentWallet, unsubscribeEvents>>
                ELSE UNCHANGED Observable]_vars

\* C21 witness: the current account left the provider's list, the page became
\* visible and the new first account was adopted, stored and notified once.
C21_Witness ==
    /\ chg.active /\ chg.seen = {"visibility"} /\ last.op = "callback"
    /\ chg.before \notin {accts[chg.wallet][i] : i \in 1..Len(accts[chg.wallet])}
    /\ currentAccount = MkAccount(chg.wallet, chg.first)
    /\ localStorage[KeyAddr] = chg.first
    /\ accountChangeListeners # {}
    /\ \A l \in accountChangeListeners : received[l] = <<chg.first>>

\* C22: when a change notification is emitted, every listener registered at
\* that time is invoked with the new address, also when another listener
\* throws, and no listener's exception reaches the change-detector callback.
C22_FanOutIsolation ==
    [][(\E l \in Listeners : Len(received'[l]) = Len(received[l]) + 1)
       => /\ \A l \in accountChangeListeners :
                received'[l] = Append(received[l], currentAccount'.address)
          /\ last'.op = "callback" /\ ~last'.threw]_vars

\* C22 witness: the listener registered first throws, and the one registered
\* after it has received the new address all the same.
C22_Witness ==
    /\ accountChangeListeners = Listeners
    /\ \E l \in Listeners : ListenerThrows(l) /\ ListenerOrder(l) = 1
    /\ last.op = "callback" /\ ~last.threw
    /\ \A l \in Listeners : received[l] = <<currentAccount.address>>

\* C23: after disconnect() no 'change' subscription is left, and a change
\* event the formerly active provider emits afterwards changes neither the
\* in-memory state nor the Session Store and notifies no listener; the
\* visibility poll does nothing while there is no current wallet or account.
C23_ChannelsAfterDisconnect ==
    /\ [](last.op = "disconnect" => unsubscribeEvents = Null /\ walletHandlers = {})
    /\ [][(/\ last.op = "disconnect"
           /\ pendingEvent # NoEvent /\ pendingEvent' = NoEvent)
          => UNCHANGED Observable]_vars
    /\ [][(VisibilityChange /\ (currentWallet = Null \/ currentAccount = NoAccount))
          => UNCHANGED Observable]_vars

\* C23 witness: the provider the page was subscribed to emits a change event
\* after the disconnect.
C23_Witness ==
    /\ last.op = "disconnect" /\ last.wallet # Null /\ HasEvents(last.wallet)
    /\ pendingEvent.wallet = last.wallet
    /\ Len(pendingEvent.accounts) > 0
    /\ \E c \in Slots : call[c].pc = "done" /\ InLog(call[c], <<"subscribe", last.wallet>>)

\* ------------------------------------------------------------------ C24
\* The inputs that settle a picker, and the value each settles it with
SettlesWith(on, value, values) ==
    \/ on = "item" /\ value \in values
    \/ on \in {"close", "modal", "Escape"} /\ value = Null

\* The values of the items a picker of call k shows
PickerValues(k, kind) ==
    IF kind = "wallet" THEN {k.items[i] : i \in 1..Len(k.items)}
    ELSE {k.accounts[i].address : i \in 1..Len(k.accounts)}

PickEntry(kind) == IF kind = "wallet" THEN "pickWallet" ELSE "pickAccount"
PickedEntry(kind) == IF kind = "wallet" THEN "walletPicked" ELSE "accountPicked"

\* C24: every picker invocation settles exactly once: it is either still
\* pending, or followed in the call's history by one user input and one
\* settled value, the clicked item's value for an item click and none for the
\* close control, a backdrop click or Escape; no other input settles it, no
\* value appears without an invocation, and a later step never rewrites the
\* history of a call in progress.
C24_PickerSettlesOnce ==
    /\ [](\A c \in Slots : \A kind \in {"wallet", "account"} :
            LET k == call[c]
            IN \A i \in 1..Len(k.log) :
                 /\ k.log[i][1] = PickEntry(kind)
                      => \/ i = Len(k.log) /\ k.pc = PickerPc(kind)
                         \/ /\ i + 2 <= Len(k.log)
                            /\ k.log[i + 1][1] = "input"
                            /\ k.log[i + 2][1] = PickedEntry(kind)
                            /\ SettlesWith(k.log[i + 1][2], k.log[i + 2][2],
                                           PickerValues(k, kind))
                 /\ k.log[i][1] = PickedEntry(kind)
                      => i > 2 /\ k.log[i - 2][1] = PickEntry(kind)
                 /\ k.log[i][1] = "input"
                      => i > 1 /\ k.log[i - 1][1] \in {"pickWallet", "pickAccount"})
    /\ [][\A c \in Slots :
            ~Idle(c) => /\ Len(call'[c].log) >= Len(call[c].log)
                        /\ SubSeq(call'[c].log, 1, Len(call[c].log)) = call[c].log]_vars

\* C24 witness: one call went through both pickers, an item was clicked in
\* the wallet picker and the account picker was dismissed with Escape.
C24_Witness ==
    \E c \in Slots : \E w \in SuiProviders :
        /\ Completed(c, "connect")
        /\ InLog(call[c], <<"walletPicked", w>>)
        /\ InLog(call[c], <<"input", "item">>)
        /\ InLog(call[c], <<"input", "Escape">>)
        /\ InLog(call[c], <<"accountPicked", Null>>)

\* ------------------------------------------------------------------ C25
RegisteredHandlers == modal.close \cup modal.backdrop \cup modal.keydown

PendingPickers ==
    {inv \in Slots \X {"wallet", "account"} : call[inv[1]].pc = PickerPc(inv[2])}

\* C25: the close, backdrop and keydown handlers registered on the modal all
\* belong to picker invocations that have not settled yet; an invocation
\* that has not settled has its three handlers registered and the modal
\* shown with its items; once every invocation has settled the modal is
\* hidden and carries no handler.
C25_PickerTeardown ==
    /\ RegisteredHandlers \subseteq PendingPickers
    /\ \A inv \in PendingPickers :
          /\ inv \in modal.close /\ inv \in modal.backdrop /\ inv \in modal.keydown
          /\ ~modal.hidden /\ modal.list = inv
    /\ PendingPickers = {} => modal.hidden

\* C25 witness: a call went through the wallet picker and then the account
\* picker, both settled, and no handler is left.
C25_Witness ==
    \E c \in Slots :
        /\ call[c].pc = "done"
        /\ HasLogKind(call[c], "walletPicked")
        /\ HasLogKind(call[c], "accountPicked")
        /\ RegisteredHandlers = {}
        /\ modal.hidden

\* ------------------------------------------------------------------ C28
\* A wallet supports Sui: it has a chain list and one of its chain ids
\* begins with the four characters s, u, i, :
SupportsSui(w) ==
    /\ HasChains(w)
    /\ \E i \in 1..Len(Chains(w)) :
          LET ch == Chains(w)[i]
          IN Len(ch) >= 4 /\ ch[1] = "s" /\ ch[2] = "u" /\ ch[3] = "i" /\ ch[4] = ":"

\* r holds the elements of l that satisfy SupportsSui, in the order of l
IsSuiSublist(r, l) ==
    /\ {r[i] : i \in 1..Len(r)} = {l[i] : i \in 1..Len(l)} \cap {w \in DiscoveryProviders : SupportsSui(w)}
    /\ \A i, j \in 1..Len(r) : i < j =>
          \E a, b \in 1..Len(l) : a < b /\ l[a] = r[i] /\ l[b] = r[j]

\* C28: getSuiWallets() returns, without failing, exactly the registered
\* wallets that have a chain list with at least one 'sui:' chain, in registry
\* order; wallets with no chain list or only other namespaces are left out,
\* and an empty or missing registry gives the empty sequence.
C28_ListSuiCompatible ==
    (call[1].op = "getSuiWallets" /\ call[1].pc = "done")
        => LET wallets == call[1].reg
               r == call[1].items
           IN /\ call[1].ret.kind = "return"
              /\ (~wallets.present \/ wallets.list = <<>>) => r = <<>>
              /\ wallets.present => IsSuiSublist(r, wallets.list)

\* C28 witness: a registry holding a wallet without chain list, a wallet of
\* another namespace and both Sui wallets was filtered down to the two.
C28_Witness ==
    /\ call[1].op = "getSuiWallets" /\ call[1].pc = "done"
    /\ call[1].reg = getWallets(<<"W4", "W2", "W3", "W1">>)
    /\ call[1].items = <<"W2", "W1">>

\* ------------------------------------------------------------------ C29
\* Call c starts in this step
Starts(c, op) == Idle(c) /\ call'[c] # call[c] /\ call'[c].op = op /\ call'[c].log # <<>>

\* Call c makes one more lookup of the saved wallet in this step
LooksUp(c) ==
    /\ call'[c].op = "restore"
    /\ \/ Starts(c, "restore") /\ Lookups(call'[c]) # <<>>
       \/ ~Idle(c) /\ Len(Lookups(call'[c])) = Len(Lookups(call[c])) + 1

\* C29: every connectWallet() works on the registry as it is when the call is
\* made, and every lookup of restoreWalletConnection() on the registry as it
\* is when the lookup is made: the call fails with NoProviderFound exactly
\* when the registry then holds no Sui wallet, so a wallet that registered
\* after an earlier NoProviderFound is found; a lookup finds the saved wallet
\* exactly when it is registered at that moment.
C29_RegistryReadFresh ==
    [][\A c \in Slots :
         /\ Starts(c, "connect")
              => /\ call'[c].reg = registry
                 /\ Threw(call'[c], "NoProviderFound")
                      <=> \A i \in 1..Len(registry) : ~IsSui(registry[i])
         /\ LooksUp(c)
              => LET k == call'[c]
                     found == \E i \in 1..Len(registry) : Name(registry[i]) = k.savedName
                 IN Lookups(k)[Len(Lookups(k))][2] = IF found THEN "found" ELSE "missing"]_vars

\* C29 witness: a connectWallet() failed with NoProviderFound, a Sui wallet
\* registered, and the next connectWallet() reached that wallet's connect.
C29_Witness ==
    \E c \in Slots :
        /\ call[c].op = "connect" /\ call[c].afterNoProvider
        /\ \E i \in 1..Len(call[c].reg) : IsSui(call[c].reg[i])
        /\ HasLogKind(call[c], "connect")
        /\ call[c].ret.kind = "return" /\ call[c].ret.val # Null

\* ------------------------------------------------------------------ C30
\* C30 (as claimed): when the connectWallet() called by handleWalletConnect()
\* returns null because the user cancelled, the handler shows no error
\* message and the wallet button still shows the disconnected state.
C30_CancellationIsNotAnError ==
    \A c \in Slots :
        (/\ JustCompleted(c, "connect")
         /\ call[c].caller = "handleWalletConnect"
         /\ Returned(call[c], Null))
            => page.error = Null /\ ~page.connected

\* ------------------------------------------------------------------ C27
\* C27 (as claimed): a connectWallet() suspended at the provider's connect
\* does not stay there for ever: even when the provider never answers, the
\* call leaves the await (by failing with a timeout error).
C27_ConnectTimesOut ==
    \A c \in Slots :
        (call[c].op = "connect" /\ call[c].pc = "connectAwait")
            ~> (call[c].pc = "done")

\* ------------------------------------------------------------------ C26
\* C26 (as claimed): in every reachable state the provider-name key is in
\* storage exactly when the address key is, whatever the interleaving of
\* connect, restore, disconnect and the change-detector callbacks.
C26_NoPartialSession ==
    (localStorage[KeyName] = Null) <=> (localStorage[KeyAddr] = Null)

\* ------------------------------------------------------------------ C38
\* C38: when the provider reports an empty account list while connected, by
\* a change event delivered to the handler or by an empty live list at a
\* visibility change, wallet, account, subscription and Session are left as
\* they are and no listener is notified: the page stays connected with the
\* previous account.
C38_EmptyListIgnored ==
    [][/\ (/\ pendingEvent # NoEvent /\ pendingEvent' = NoEvent
           /\ pendingEvent.wallet \in walletHandlers
           /\ isWalletConnected
           /\ Len(pendingEvent.accounts) = 0)
          => UNCHANGED Observable
       /\ (/\ VisibilityChange /\ isWalletConnected
           /\ Len(LiveAccounts(currentWallet, accts[currentWallet], authorized)) = 0)
          => UNCHANGED Observable]_vars

\* C38 witness: the user removed every account of the connected wallet; the
\* event and a visibility change were both handled and the page is still
\* connected with the account it had.
C38_Witness ==
    /\ chg.active /\ chg.first = Null /\ chg.seen = {"event", "visibility"}
    /\ last.op = "callback"
    /\ isWalletConnected /\ currentWallet = chg.wallet
    /\ accts[chg.wallet] = <<>>
    /\ currentAccount.address = chg.before
    /\ localStorage = SessionOf(Name(currentWallet), currentAccount.address)

\* ------------------------------------------------------------------ C36
\* C36 (as claimed): whenever no operation is in flight and wallet and
\* account are both null, the subscription handle is null and no handler is
\* registered on a provider.
C36_SubscriptionOnlyWhileConnected ==
    (Quiet /\ currentWallet = Null /\ currentAccount = NoAccount)
        => unsubscribeEvents = Null /\ walletHandlers = {}

\* ------------------------------------------------------------------ C39
\* C39 (as claimed): in every reachable state, also while a call is
\* suspended at an await, if wallet and account are both non-null then the
\* account is one that this wallet supplied.
C39_AccountBelongsToWallet ==
    (currentWallet # Null /\ currentAccount # NoAccount)
        => currentAccount.owner = currentWallet

\* ------------------------------------------------------------------ C37
\* C37: whenever isWalletConnected() is true and no operation is in flight,
\* storage holds both keys, the name that of the current wallet and the
\* address that of the current account.
C37_SessionMatchesConnection ==
    (Quiet /\ isWalletConnected)
        => localStorage = SessionOf(Name(currentWallet), currentAccount.address)

\* ------------------------------------------------------------------ C35
\* C35 (as claimed): at most one handler is registered on the providers at
\* any time, and it is the one the subscription handle stands for; and a
\* change event that reaches the handler comes from the current wallet,
\* never from a provider used before.
C35_SingleSubscription ==
    /\ [](/\ Cardinality(walletHandlers) <= 1
          /\ walletHandlers = IF unsubscribeEvents = Null THEN {}
                              ELSE {unsubscribeEvents})
    /\ [][(/\ pendingEvent # NoEvent /\ pendingEvent' = NoEvent
           /\ pendingEvent.wallet \in walletHandlers)
          => pendingEvent.wallet = currentWallet]_vars

\* ------------------------------------------------------------------ C34
\* The wallet button agrees with the connection state
Projection ==
    IF isWalletConnected
    THEN page.connected /\ page.label = getWalletAddress
    ELSE ~page.connected

\* A step taken by the page: one of its handlers (handleWalletConnect, the
\* disconnect branch of toggleWallet, init) or a change-detector callback
PageStep ==
    \/ \E c \in Slots : /\ call'[c] # call[c]
                        /\ call'[c].caller \in {"handleWalletConnect", "init"}
    \/ /\ isWalletConnected /\ nOps' = nOps + 1 /\ UNCHANGED call
    \/ VisibilityChange
    \/ WalletChangeEvent

\* C34 (as claimed): the button is a projection of the connection state:
\* every step of the page that ends with no operation in flight, taken when
\* the button agreed with the connection state (or, inside a call, when it
\* showed the disconnected state the call started from), leaves the button
\* showing 'connected' with getWalletAddress() exactly when
\* isWalletConnected() is true; so also after a change-detector callback
\* has switched the current account.
C34_StatusProjection ==
    [][(/\ PageStep
        /\ \A c \in Slots : call'[c].pc \in {"idle", "done"}
        /\ IF Quiet THEN Projection ELSE ~page.connected)
       => Projection']_vars

\* ------------------------------------------------------------------ C40
\* C40 (as claimed): a picker invocation opened while an earlier one is
\* pending leaves nothing of the earlier one behind when it resolves: once
\* a resolution has closed the modal, no invocation is still pending and no
\* close, backdrop or keydown handler is still registered.
C40_NoPickerLeftBehind ==
    modal.hidden => OpenPickers = {} /\ RegisteredHandlers = {}

\* ------------------------------------------------------------------ C33
\* Both slots hold connectWallet() calls that overlapped and have settled
OverlappedConnects ==
    /\ Quiet
    /\ \A c \in Slots : /\ call[c].op = "connect" /\ call[c].pc = "done"
                        /\ "connect" \in call[c].during

\* C33 (as claimed): after two overlapping connectWallet() calls have both
\* settled, wallet and account are both null or both non-null, and when one
\* call failed and the other succeeded, the succeeded call's Session and
\* subscription do not coexist with a disconnected in-memory state.
C33_OverlappingConnects ==
    OverlappedConnects
        => /\ (currentWallet = Null) <=> (currentAccount = NoAccount)
           /\ (\E c, d \in Slots :
                  /\ call[c].ret.kind = "return" /\ call[c].ret.val # Null
                  /\ call[d].ret.kind = "throw")
              => \/ isWalletConnected
                 \/ localStorage = NoStore /\ unsubscribeEvents = Null

\* ------------------------------------------------------------------ C31
\* C31 (as claimed): when disconnectWallet() ran while a connectWallet() or
\* a restoreWalletConnection() was suspended, then once that call has
\* completed wallet and account are both null or both non-null, and storage
\* holds a Session only if the in-memory state is connected.
C31_StaleAfterAwait ==
    \A c \in Slots :
        (/\ Quiet
         /\ JustCompleted(c, call[c].op)
         /\ call[c].op \in {"connect", "restore"}
         /\ "disconnect" \in call[c].during)
            => /\ (currentWallet = Null) <=> (currentAccount = NoAccount)
               /\ localStorage # NoStore => isWalletConnected

\* ------------------------------------------------------------------ C32
\* A key of the Session Store is set in this step (removals are not writes)
SessionWritten ==
    \E key \in Keys : localStorage'[key] # localStorage[key] /\ localStorage'[key] # Null

\* C32 (as claimed): every step that writes the Session Store, by connect,
\* restore or a change-detector handler and under every interleaving, leaves
\* the stored record equal to the current wallet's name and the current
\* account's address as they are in memory when the write is made.
C32_WritesMatchMemory ==
    [][SessionWritten
       => /\ currentWallet' # Null /\ currentAccount' # NoAccount
          /\ localStorage' = SessionOf(Name(currentWallet'), currentAccount'.address)]_vars

====
